---- MODULE Spec2Model ----
(***************************************************************************)
(* Field extraction of app_multi.py: OCR text -> maker, model, serial,     *)
(* year.  A text is a sequence of characters; a character is a one-letter  *)
(* string for ASCII and a named atom "{...}" for every other code point.   *)
(*                                                                         *)
(* Atoms (code point):                                                     *)
(*  {sei} U+88FD  {zou} U+9020  {nen} U+5E74  {gatsu} U+6708               *)
(*  {shiki} U+5F0F  {rei} U+4EE4  {wa} U+548C  {hei} U+5E73                *)
(*  {naru} U+6210  {shou} U+662D  {gan} U+5143  {ban} U+756A               *)
(*  {gou} U+53F7  {hin} U+54C1  {kan} U+7BA1  {ri} U+7406  {hon} U+672C    *)
(*  {tai} U+4F53  {kata} U+578B  {kei} U+5F62  {mei} U+540D                *)
(*  {nichi} U+65E5  {ritsu} U+7ACB  {tou} U+6771  {shiba} U+829D           *)
(*  {san} U+4E09  {hishi} U+83F1  {you} U+6D0B                             *)
(*  katakana {PA} U+30D1 {NA} U+30CA {SO} U+30BD {NI} U+30CB {tsu} U+30C3  *)
(*  {KU} U+30AF {SHI} U+30B7 {ya} U+30E3 {long} U+30FC {PU} U+30D7         *)
(*  {HA} U+30CF {I} U+30A4 {SE} U+30BB {N} U+30F3 {A} U+30A2 {RU} U+30EB   *)
(*  {E} U+30A8 {JI} U+30B8 {SA} U+30B5 {MU} U+30E0 {SU} U+30B9 {BA} U+30D0 *)
(*  {MI} U+30DF {yu} U+30E5 {DA} U+30C0 {RI} U+30EA {O} U+30AA {YA} U+30E4 *)
(*  {MA} U+30DE {KI} U+30AD                                                *)
(*  compatibility forms, which NFKC rewrites:                              *)
(*  {fw:} U+FF1A -> ":"   {fw2} U+FF12 -> "2"   {fwA} U+FF21 -> "A"        *)
(*  {No} U+2116 -> "No"                                                    *)
(***************************************************************************)
EXTENDS Integers, Sequences, FiniteSets, TLC

VARIABLES text, today, pc, out, prev

vars == <<text, today, pc, out, prev>>

----------------------------------------------------------------------------
(* Characters and strings *)

\* A local variable: x = v, then F(x).  v is evaluated once.
Bind(v, F(_)) == CHOOSE r \in {F(x) : x \in {v}} : TRUE

\* The characters of a literal: "{name}" is one atom, any other letter itself.
RECURSIVE TFrom(_, _)
TFrom(s, i) ==
    IF i > Len(s) THEN <<>>
    ELSE IF SubSeq(s, i, i) = "{"
         THEN LET j == CHOOSE k \in (i + 1)..Len(s) :
                           /\ SubSeq(s, k, k) = "}"
                           /\ \A m \in (i + 1)..(k - 1) : SubSeq(s, m, m) /= "}"
              IN  <<SubSeq(s, i, j)>> \o TFrom(s, j + 1)
         ELSE <<SubSeq(s, i, i)>> \o TFrom(s, i + 1)

T(s) == TFrom(s, 1)

SetOf(seq) == {seq[i] : i \in DOMAIN seq}

UpperLetters == T("ABCDEFGHIJKLMNOPQRSTUVWXYZ")
LowerLetters == T("abcdefghijklmnopqrstuvwxyz")
Digits == T("0123456789")

UPPER == SetOf(UpperLetters)
LOWER == SetOf(LowerLetters)
DIGIT == SetOf(Digits)

Kanji == SetOf(T("{sei}{zou}{nen}{gatsu}{shiki}{rei}{wa}{hei}{naru}{shou}{gan}{ban}{gou}{hin}{kan}{ri}{hon}{tai}{kata}{kei}{mei}{nichi}{ritsu}{tou}{shiba}{san}{hishi}{you}"))
Kana == SetOf(T("{PA}{NA}{SO}{NI}{tsu}{KU}{SHI}{ya}{long}{PU}{HA}{I}{SE}{N}{A}{RU}{E}{JI}{SA}{MU}{SU}{BA}{MI}{yu}{DA}{RI}{O}{YA}{MA}{KI}"))

\* the classes \d, \s, \w of re, and str.isalpha, str.isdigit on one character
RD == DIGIT \cup {"{fw2}"}
RS == {" ", "\n", "\t"}
WORD == UPPER \cup LOWER \cup DIGIT \cup Kanji \cup Kana \cup {"_", "{fwA}", "{fw2}"}
IsAlpha(c) == c \in UPPER \cup LOWER \cup Kanji \cup Kana \cup {"{fwA}"}
IsDigit(c) == c \in RD

IndexOf(seq, c) == CHOOSE i \in DOMAIN seq : seq[i] = c

\* str.upper
UpperChar(c) == IF c \in LOWER THEN UpperLetters[IndexOf(LowerLetters, c)] ELSE c
Upper(s) == [i \in DOMAIN s |-> UpperChar(s[i])]

\* Code-point order of the characters a model token can hold.
CodeOrder == T("-./0123456789ABCDEFGHIJKLMNOPQRSTUVWXYZ_")
Ord(c) == IndexOf(CodeOrder, c)

\* s < t as Python compares str: by code point, a proper prefix first
RECURSIVE StrLessFrom(_, _, _)
StrLessFrom(s, t, i) ==
    IF i > Len(t) THEN FALSE
    ELSE IF i > Len(s) THEN TRUE
    ELSE IF s[i] /= t[i] THEN Ord(s[i]) < Ord(t[i])
    ELSE StrLessFrom(s, t, i + 1)

StrLess(s, t) == StrLessFrom(s, t, 1)

RECURSIVE FlattenFrom(_, _)
FlattenFrom(ss, k) == IF k > Len(ss) THEN <<>> ELSE ss[k] \o FlattenFrom(ss, k + 1)

\* the concatenation of a sequence of sequences
Flatten(ss) == Bind(ss, LAMBDA v : FlattenFrom(v, 1))

\* sep.join(parts)
Join(parts, sep) ==
    Flatten([i \in DOMAIN parts |-> IF i = 1 THEN parts[i] ELSE sep \o parts[i]])

\* a in s
Contains(s, a) ==
    \E i \in 1..(Len(s) - Len(a) + 1) : SubSeq(s, i, i + Len(a) - 1) = a

\* int(s), which is defined on non-empty digit strings only
RECURSIVE DigitsToInt(_, _)
DigitsToInt(s, n) ==
    IF n = 0 THEN 0
    ELSE 10 * DigitsToInt(s, n - 1) + (IndexOf(Digits, s[n]) - 1)

IntParses(s) == s /= <<>> /\ \A i \in DOMAIN s : s[i] \in DIGIT
StrToInt(s) == DigitsToInt(s, Len(s))

\* str(n) for n >= 0
RECURSIVE IntToStr(_)
IntToStr(n) ==
    IF n < 10 THEN <<Digits[n + 1]>>
    ELSE IntToStr(n \div 10) \o <<Digits[(n % 10) + 1]>>

\* str.strip(chars)
Strip(s, cs) ==
    Bind({i \in DOMAIN s : s[i] \notin cs}, LAMBDA keep :
        IF keep = {} THEN <<>>
        ELSE SubSeq(s, CHOOSE i \in keep : \A j \in keep : i <= j,
                       CHOOSE i \in keep : \A j \in keep : i >= j))

----------------------------------------------------------------------------
(* Regular expressions: the backtracking matcher of re *)

Cls(S) == [k |-> "cls", s |-> S]
Lit(s) == [k |-> "lit", w |-> T(s)]
Cat(a) == [k |-> "cat", a |-> a]
Alt(a) == [k |-> "alt", a |-> a]
Rep(r, lo, hi) == [k |-> "rep", r |-> r, lo |-> lo, hi |-> hi]
Grp(n, r) == [k |-> "grp", n |-> n, r |-> r]
WB == [k |-> "wb"]
Opt(r) == Rep(r, 0, 1)
\* the repetition count of * and +, which have none
Many == 1000
Star(r) == Rep(r, 0, Many)
Plus(r) == Rep(r, 1, Many)

NoGroups == <<<<0, 0>>, <<0, 0>>>>

IsWordAt(s, i) == i >= 1 /\ i <= Len(s) /\ s[i] \in WORD

Min2(a, b) == IF a < b THEN a ELSE b

\* how many characters of s from position i on are in class S, up to hi
RunLen(S, s, i, hi) ==
    Cardinality({n \in 1..Min2(hi, Len(s) - i + 1) :
                    \A k \in 0..(n - 1) : s[i + k] \in S})

\* Every way re matches s from position i, in the order the matcher tries them
\* (alternatives left to right, repetitions greedy): a sequence of
\* [e: the position after the match, g: the groups' spans].
RECURSIVE M(_, _, _, _)
RECURSIVE MCat(_, _, _, _, _)
RECURSIVE MRep(_, _, _, _, _)

M(re, s, i, g) ==
    CASE re.k = "cls" ->
            IF i <= Len(s) /\ s[i] \in re.s THEN <<[e |-> i + 1, g |-> g]>> ELSE <<>>
      [] re.k = "lit" ->
            IF SubSeq(s, i, Min2(i + Len(re.w) - 1, Len(s))) = re.w
            THEN <<[e |-> i + Len(re.w), g |-> g]>> ELSE <<>>
      [] re.k = "wb" ->
            IF IsWordAt(s, i - 1) /= IsWordAt(s, i) THEN <<[e |-> i, g |-> g]>> ELSE <<>>
      [] re.k = "cat" -> MCat(re.a, 1, s, i, g)
      [] re.k = "alt" -> Flatten([j \in DOMAIN re.a |-> M(re.a[j], s, i, g)])
      [] re.k = "rep" ->
            IF re.r.k = "cls"
            THEN \* a run of one class: the longest first, down to lo characters
                 Bind(RunLen(re.r.s, s, i, re.hi), LAMBDA n :
                    IF n < re.lo THEN <<>>
                    ELSE [j \in 1..(n - re.lo + 1) |-> [e |-> i + n - j + 1, g |-> g]])
            ELSE MRep(re, 0, s, i, g)
      [] re.k = "grp" ->
            Bind(M(re.r, s, i, g), LAMBDA rs :
                [j \in DOMAIN rs |->
                    [e |-> rs[j].e, g |-> [rs[j].g EXCEPT ![re.n] = <<i, rs[j].e>>]]])

\* a[j..] of a concatenation: the rest after each match of a[j]
MCat(a, j, s, i, g) ==
    IF j > Len(a) THEN <<[e |-> i, g |-> g]>>
    ELSE Bind(M(a[j], s, i, g), LAMBDA rs :
            Flatten([k \in DOMAIN rs |-> MCat(a, j + 1, s, rs[k].e, rs[k].g)]))

\* the n+1-th repetition and the rest after each match of it (an empty
\* repetition ends the loop), then stopping after n
MRep(re, n, s, i, g) ==
    (IF n < re.hi
     THEN Bind(M(re.r, s, i, g), LAMBDA rs :
            Flatten([k \in DOMAIN rs |->
                IF rs[k].e > i THEN MRep(re, n + 1, s, rs[k].e, rs[k].g) ELSE <<>>]))
     ELSE <<>>)
    \o (IF n >= re.lo THEN <<[e |-> i, g |-> g]>> ELSE <<>>)

NoMatch == [found |-> FALSE, s |-> 0, e |-> 0, g |-> NoGroups]

\* re.match at position i
MatchAt(re, s, i) ==
    Bind(M(re, s, i, NoGroups), LAMBDA rs :
        IF rs = <<>> THEN NoMatch
        ELSE [found |-> TRUE, s |-> i, e |-> rs[1].e, g |-> rs[1].g])

\* re.search from position i on: the leftmost match
SearchFrom(re, s, i) ==
    Bind({j \in i..(Len(s) + 1) : M(re, s, j, NoGroups) /= <<>>}, LAMBDA at :
        IF at = {} THEN NoMatch
        ELSE MatchAt(re, s, CHOOSE j \in at : \A k \in at : j <= k))

Search(re, s) == Bind(s, LAMBDA v : SearchFrom(re, v, 1))

\* m.group(n)
Group(s, m, n) == SubSeq(s, m.g[n][1], m.g[n][2] - 1)

\* re.findall for a pattern with at most one group: the non-overlapping matches
\* left to right, each as its group n (the whole match when n = 0)
RECURSIVE FindAllFrom(_, _, _, _)
FindAllFrom(re, s, i, n) ==
    Bind(SearchFrom(re, s, i), LAMBDA m :
        IF ~m.found THEN <<>>
        ELSE <<IF n = 0 THEN SubSeq(s, m.s, m.e - 1) ELSE Group(s, m, n)>>
             \o FindAllFrom(re, s, IF m.e > m.s THEN m.e ELSE m.e + 1, n))

FindAll(re, s, n) == Bind(s, LAMBDA v : FindAllFrom(re, v, 1, n))

----------------------------------------------------------------------------
(* Normalizer *)

\* unicodedata.normalize("NFKC", s) on one character
NFKCChar(c) ==
    CASE c = "{fw:}" -> T(":")
      [] c = "{fw2}" -> T("2")
      [] c = "{fwA}" -> T("A")
      [] c = "{No}" -> T("No")
      [] OTHER -> <<c>>

_normalize(s) == Flatten([i \in DOMAIN s |-> NFKCChar(s[i])])

\* str.splitlines: the lines of s from position i on, the current line
\* starting at st
RECURSIVE SplitLinesFrom(_, _, _)
SplitLinesFrom(s, i, st) ==
    IF i > Len(s) THEN (IF st > Len(s) THEN <<>> ELSE <<SubSeq(s, st, Len(s))>>)
    ELSE IF s[i] = "\n" THEN <<SubSeq(s, st, i - 1)>> \o SplitLinesFrom(s, i + 1, i + 1)
    ELSE SplitLinesFrom(s, i + 1, st)

_split_lines(s) ==
    Bind(_normalize(s), LAMBDA norm :
    Bind(SplitLinesFrom(norm, 1, 1), LAMBDA raw :
        SelectSeq([i \in DOMAIN raw |-> Strip(raw[i], RS)], LAMBDA ln : ln /= <<>>)))

----------------------------------------------------------------------------
(* Confusable-character correctors *)

\* one re.sub of _fix_confusions_for_model: each of `letters` next to a digit
FixNextToDigit(t, letters, digit) ==
    [i \in DOMAIN t |->
        IF /\ t[i] \in letters
           /\ \/ (i > 1 /\ t[i - 1] \in RD)
              \/ (i < Len(t) /\ t[i + 1] \in RD)
        THEN digit ELSE t[i]]

_fix_confusions_for_model(tok) ==
    Bind(tok, LAMBDA t :
    Bind(FixNextToDigit(t, {"O"}, "0"), LAMBDA t1 :
    Bind(FixNextToDigit(t1, {"I", "l"}, "1"), LAMBDA t2 :
    Bind(FixNextToDigit(t2, {"Z"}, "2"), LAMBDA t3 :
    Bind(FixNextToDigit(t3, {"S"}, "5"), LAMBDA t4 :
        FixNextToDigit(t4, {"B"}, "8"))))))


\* SerialChar without the B -> 8 replacement
SerialChar_no_B(c) ==
    CASE c \in {"O", "o"} -> "0"
      [] c \in {"I", "l"} -> "1"
      [] c = "Z" -> "2"
      [] c = "S" -> "5"
      [] OTHER -> c

\* the str.replace chain of _fix_confusions_for_serial on one character
SerialChar(c) ==
    CASE c \in {"O", "o"} -> "0"
      [] c \in {"I", "l"} -> "1"
      [] c = "Z" -> "2"
      [] c = "S" -> "5"
      [] c = "B" -> "8"
      [] OTHER -> c

\* digits_ratio >= 0.4, as digits / max(1, len) >= 2 / 5
DigitsRatioHigh(tok) ==
    5 * Cardinality({i \in DOMAIN tok : IsDigit(tok[i])})
        >= 2 * (IF Len(tok) >= 1 THEN Len(tok) ELSE 1)

_fix_confusions_for_serial(tok) ==
    Bind(tok, LAMBDA t :
        IF DigitsRatioHigh(t) THEN [i \in DOMAIN t |-> SerialChar(t[i])] ELSE t)

----------------------------------------------------------------------------
(* Year resolver *)

Returned(v) == [exc |-> FALSE, val |-> v]
\* int() of a string that is no number: ValueError
Raised == [exc |-> TRUE, val |-> <<>>]

EraBase(era) ==
    CASE era = T("{rei}{wa}") -> 2018
      [] era = T("{hei}{naru}") -> 1988
      [] era = T("{shou}{wa}") -> 1925
      [] era = T("R") -> 2018
      [] era = T("H") -> 1988
      [] era = T("S") -> 1925
      [] OTHER -> 0


\* _to_western_year taking the base year as the era's first year
_to_western_year_first_year(era, y) ==
    Bind(EraBase(era), LAMBDA base : IF base /= 0 THEN base + y - 1 ELSE 0)

_to_western_year(era, y) ==
    Bind(EraBase(era), LAMBDA base : IF base /= 0 THEN base + y ELSE 0)

\* (製造年(?:月)?|年式)\s*[:：]?\s*(\d{4})\s*年?
RE_YEAR_LABEL ==
    Cat(<<Grp(1, Alt(<<Cat(<<Lit("{sei}{zou}{nen}"), Opt(Lit("{gatsu}"))>>),
                       Lit("{nen}{shiki}")>>)),
          Star(Cls(RS)), Opt(Cls({":", "{fw:}"})), Star(Cls(RS)),
          Grp(2, Rep(Cls(RD), 4, 4)), Star(Cls(RS)), Opt(Lit("{nen}"))>>)

\* (令和|平成|昭和)\s*([元\d]{1,2})\s*年
RE_YEAR_ERA ==
    Cat(<<Grp(1, Alt(<<Lit("{rei}{wa}"), Lit("{hei}{naru}"), Lit("{shou}{wa}")>>)),
          Star(Cls(RS)), Grp(2, Rep(Cls(RD \cup {"{gan}"}), 1, 2)),
          Star(Cls(RS)), Lit("{nen}")>>)

\* \b([RHS])\s*([1-3]?\d)\b
RE_YEAR_ABBR ==
    Cat(<<WB, Grp(1, Cls({"R", "H", "S"})), Star(Cls(RS)),
          Grp(2, Cat(<<Opt(Cls({"1", "2", "3"})), Cls(RD)>>)), WB>>)

\* 19\d{2}|20[0-3]\d
RE_YYYY ==
    Alt(<<Cat(<<Lit("19"), Rep(Cls(RD), 2, 2)>>),
          Cat(<<Lit("20"), Cls({"0", "1", "2", "3"}), Cls(RD)>>)>>)

\* \b(19\d{2}|20[0-3]\d)\b
RE_YEAR_BARE == Cat(<<WB, Grp(1, RE_YYYY), WB>>)

\* \b(19\d{2}|20[0-3]\d)[/\-\.](0?[1-9]|1[0-2])\b
RE_YEAR_DATE ==
    Cat(<<WB, Grp(1, RE_YYYY), Cls({"/", "-", "."}),
          Grp(2, Alt(<<Cat(<<Opt(Lit("0")), Cls({"1", "2", "3", "4", "5", "6", "7", "8", "9"})>>),
                       Cat(<<Lit("1"), Cls({"0", "1", "2"})>>)>>)), WB>>)

\* What one step of _parse_year does: it returns (or raises) on a match and
\* falls through to the next step otherwise.
Hit(r) == [hit |-> TRUE, res |-> r]
Miss == [hit |-> FALSE, res |-> Returned(<<>>)]

\* 1) the labeled year, verbatim
YearLabeled(norm) ==
    Bind(Search(RE_YEAR_LABEL, norm), LAMBDA m :
        IF m.found THEN Hit(Returned(Group(norm, m, 2))) ELSE Miss)

\* y = 1 if m.group(2) == "元" else int(m.group(2))
EraYear(era, ey) ==
    IF ey = T("{gan}") THEN Returned(IntToStr(_to_western_year(era, 1)))
    ELSE IF IntParses(ey) THEN Returned(IntToStr(_to_western_year(era, StrToInt(ey))))
    ELSE Raised

\* 2) era name + year
YearEra(norm) ==
    Bind(Search(RE_YEAR_ERA, norm), LAMBDA m :
        IF m.found THEN Hit(EraYear(Group(norm, m, 1), Group(norm, m, 2))) ELSE Miss)

\* 3) era letter + number
YearAbbr(norm) ==
    Bind(Search(RE_YEAR_ABBR, norm), LAMBDA m :
        IF m.found
        THEN Hit(Returned(IntToStr(_to_western_year(Group(norm, m, 1),
                                                    StrToInt(Group(norm, m, 2))))))
        ELSE Miss)

\* 4) the first bare 4-digit year in 2010 .. this_year + 1
YearBare(norm, this_year) ==
    Bind(SelectSeq(FindAll(RE_YEAR_BARE, norm, 1),
                   LAMBDA y : 2010 <= StrToInt(y) /\ StrToInt(y) <= this_year + 1),
         LAMBDA ys : IF ys /= <<>> THEN Hit(Returned(ys[1])) ELSE Miss)

\* 5) the year of a YYYY/MM date
YearDate(norm) ==
    Bind(Search(RE_YEAR_DATE, norm), LAMBDA m :
        IF m.found THEN Hit(Returned(Group(norm, m, 1))) ELSE Miss)

\* _parse_year trying the bare 4-digit year before the other patterns
_parse_year_bare_first(txt, this_year) ==
    Bind(_normalize(txt), LAMBDA norm :
    Bind(YearBare(norm, this_year), LAMBDA r4 : IF r4.hit THEN r4.res ELSE
    Bind(YearLabeled(norm), LAMBDA r1 : IF r1.hit THEN r1.res ELSE
    Bind(YearEra(norm), LAMBDA r2 : IF r2.hit THEN r2.res ELSE
    Bind(YearAbbr(norm), LAMBDA r3 : IF r3.hit THEN r3.res ELSE
    Bind(YearDate(norm), LAMBDA r5 : IF r5.hit THEN r5.res ELSE
        Returned(<<>>)))))))

\* _parse_year trying the era name before the labeled year
_parse_year_era_first(txt, this_year) ==
    Bind(_normalize(txt), LAMBDA norm :
    Bind(YearEra(norm), LAMBDA r2 : IF r2.hit THEN r2.res ELSE
    Bind(YearLabeled(norm), LAMBDA r1 : IF r1.hit THEN r1.res ELSE
    Bind(YearAbbr(norm), LAMBDA r3 : IF r3.hit THEN r3.res ELSE
    Bind(YearBare(norm, this_year), LAMBDA r4 : IF r4.hit THEN r4.res ELSE
    Bind(YearDate(norm), LAMBDA r5 : IF r5.hit THEN r5.res ELSE
        Returned(<<>>)))))))

_parse_year(txt, this_year) ==
    Bind(_normalize(txt), LAMBDA norm :
    Bind(YearLabeled(norm), LAMBDA r1 : IF r1.hit THEN r1.res ELSE
    Bind(YearEra(norm), LAMBDA r2 : IF r2.hit THEN r2.res ELSE
    Bind(YearAbbr(norm), LAMBDA r3 : IF r3.hit THEN r3.res ELSE
    Bind(YearBare(norm, this_year), LAMBDA r4 : IF r4.hit THEN r4.res ELSE
    Bind(YearDate(norm), LAMBDA r5 : IF r5.hit THEN r5.res ELSE
        Returned(<<>>)))))))

----------------------------------------------------------------------------
(* Manufacturer resolver *)

_MAKER_TABLE == <<
    [canon |-> T("Panasonic"), aliases |-> <<T("PANASONIC"), T("{PA}{NA}{SO}{NI}{tsu}{KU}")>>],
    [canon |-> T("Hitachi"), aliases |-> <<T("HITACHI"), T("{nichi}{ritsu}")>>],
    [canon |-> T("Toshiba"), aliases |-> <<T("TOSHIBA"), T("{tou}{shiba}")>>],
    [canon |-> T("Sharp"), aliases |-> <<T("SHARP"), T("{SHI}{ya}{long}{PU}")>>],
    [canon |-> T("Sony"), aliases |-> <<T("SONY"), T("{SO}{NI}{long}")>>],
    [canon |-> T("Mitsubishi"), aliases |-> <<T("MITSUBISHI"), T("{san}{hishi}")>>],
    [canon |-> T("Hisense"), aliases |-> <<T("HISENSE"), T("{HA}{I}{SE}{N}{SU}")>>],
    [canon |-> T("Haier"), aliases |-> <<T("HAIER"), T("{HA}{I}{A}{long}{RU}")>>],
    [canon |-> T("LG"), aliases |-> <<T("LG"), T("{E}{RU}{JI}{long}")>>],
    [canon |-> T("Samsung"), aliases |-> <<T("SAMSUNG"), T("{SA}{MU}{SU}{N}")>>],
    [canon |-> T("SANYO"), aliases |-> <<T("SANYO"), T("{san}{you}")>>],
    [canon |-> T("BALMUDA"), aliases |-> <<T("BALMUDA"), T("{BA}{RU}{MI}{yu}{long}{DA}")>>],
    [canon |-> T("IRIS OHYAMA"),
     aliases |-> <<T("IRIS OHYAMA"), T("IRISOHYAMA"), T("{A}{I}{RI}{SU}{O}{long}{YA}{MA}")>>],
    [canon |-> T("DAIKIN"), aliases |-> <<T("DAIKIN"), T("{DA}{I}{KI}{N}")>>],
    [canon |-> T("AQUA"), aliases |-> <<T("AQUA"), T("{A}{KU}{A}")>>],
    [canon |-> T("Panasonic National"), aliases |-> <<T("NATIONAL"), T("{NA}{SHI}{long}{NA}{RU}")>>]
>>


\* AliasIn matching an alias only between word boundaries
AliasIn_word_boundary(up_text, aliases) ==
    \E j \in DOMAIN aliases : Bind(Upper(aliases[j]), LAMBDA a :
        \E i \in 1..(Len(up_text) - Len(a) + 1) :
            /\ SubSeq(up_text, i, i + Len(a) - 1) = a
            /\ ~IsWordAt(up_text, i - 1)
            /\ ~IsWordAt(up_text, i + Len(a)))

\* any(a in up_text for a in [al.upper() for al in aliases])
AliasIn(up_text, aliases) ==
    \E j \in DOMAIN aliases : Bind(Upper(aliases[j]), LAMBDA a : Contains(up_text, a))

RECURSIVE MakerFrom(_, _)
MakerFrom(up_text, j) ==
    IF j > Len(_MAKER_TABLE) THEN <<>>
    ELSE IF AliasIn(up_text, _MAKER_TABLE[j].aliases) THEN _MAKER_TABLE[j].canon
    ELSE MakerFrom(up_text, j + 1)

_parse_maker(up_text) == MakerFrom(up_text, 1)

----------------------------------------------------------------------------
(* Serial resolver *)

\* NO\.?
RE_NO_DOT == Cat(<<Lit("NO"), Opt(Lit("."))>>)
\* No\.?
RE_No_DOT == Cat(<<Lit("No"), Opt(Lit("."))>>)

_SERIAL_LABEL_PATTERNS == <<
    \* (?:S\/?\s*N|SER(?:IAL)?\s*NO\.?|SER\s*NO\.?|SNO\.?)
    Alt(<<Cat(<<Lit("S"), Opt(Lit("/")), Star(Cls(RS)), Lit("N")>>),
          Cat(<<Lit("SER"), Opt(Lit("IAL")), Star(Cls(RS)), RE_NO_DOT>>),
          Cat(<<Lit("SER"), Star(Cls(RS)), RE_NO_DOT>>),
          Cat(<<Lit("S"), RE_NO_DOT>>)>>),
    \* (?:製造番号|製番|製造NO\.?|製造No\.?|製造№|製品番号)
    Alt(<<Lit("{sei}{zou}{ban}{gou}"), Lit("{sei}{ban}"),
          Cat(<<Lit("{sei}{zou}"), RE_NO_DOT>>), Cat(<<Lit("{sei}{zou}"), RE_No_DOT>>),
          Lit("{sei}{zou}{No}"), Lit("{sei}{hin}{ban}{gou}")>>),
    \* (?:管理番号|本体番号|本体No\.?)
    Alt(<<Lit("{kan}{ri}{ban}{gou}"), Lit("{hon}{tai}{ban}{gou}"),
          Cat(<<Lit("{hon}{tai}"), RE_No_DOT>>)>>),
    \* (?:NO\.|No\.)
    Alt(<<Lit("NO."), Lit("No.")>>)
>>

\* [A-Z0-9\- ]
SERIAL_RUN == UPPER \cup DIGIT \cup {"-", " "}

\* (?:label|label|label|label)\s*[:：\-]?\s*([A-Z0-9\- ]{4,})
RE_SERIAL_LABELED ==
    Cat(<<Alt(_SERIAL_LABEL_PATTERNS), Star(Cls(RS)), Opt(Cls({":", "{fw:}", "-"})),
          Star(Cls(RS)), Grp(1, Rep(Cls(SERIAL_RUN), 4, Many))>>)

\* \b[A-Z0-9][A-Z0-9\-]{5,24}\b
RE_SERIAL_TOKEN ==
    Cat(<<WB, Cls(UPPER \cup DIGIT), Rep(Cls(UPPER \cup DIGIT \cup {"-"}), 5, 24), WB>>)

SERIAL_HINTS == <<T("SN"), T("SERIAL"), T("NO"), T("{sei}{zou}"), T("{sei}{ban}")>>

\* re.sub(r'\s+', '', s)
DropSpace(s) == SelectSeq(s, LAMBDA c : c \notin RS)

IsDigitStr(s) == s /= <<>> /\ \A i \in DOMAIN s : IsDigit(s[i])

\* any(re.search(p, ln) for p in _SERIAL_LABEL_PATTERNS)
HasSerialLabel(ln) ==
    \E j \in DOMAIN _SERIAL_LABEL_PATTERNS : Search(_SERIAL_LABEL_PATTERNS[j], ln).found


\* LabeledCand without .strip('-')
LabeledCand_unstripped(ln) ==
    Bind(Search(RE_SERIAL_LABELED, ln), LAMBDA m :
        IF m.found
        THEN _fix_confusions_for_serial(DropSpace(Group(ln, m, 1)))
        ELSE <<>>)

\* cand of a line the labeled pattern matches (empty when it does not)
LabeledCand(ln) ==
    Bind(Search(RE_SERIAL_LABELED, ln), LAMBDA m :
        IF m.found
        THEN _fix_confusions_for_serial(Strip(DropSpace(Group(ln, m, 1)), {"-"}))
        ELSE <<>>)

SerialAccepted(cand) ==
    \/ /\ 6 <= Len(cand) /\ Len(cand) <= 24
       /\ \E i \in DOMAIN cand : cand[i] \in UPPER
       /\ \E i \in DOMAIN cand : cand[i] \in RD
    \/ /\ 8 <= Len(cand) /\ Len(cand) <= 20
       /\ IsDigitStr(cand)

\* what the labeled phase returns at one line (empty: it goes on)
LineSerial(ln) ==
    IF HasSerialLabel(ln)
    THEN Bind(LabeledCand(ln), LAMBDA cand : IF SerialAccepted(cand) THEN cand ELSE <<>>)
    ELSE <<>>

RECURSIVE SerialLabeledFrom(_, _)
SerialLabeledFrom(up_lines, j) ==
    IF j > Len(up_lines) THEN <<>>
    ELSE Bind(LineSerial(up_lines[j]), LAMBDA c :
            IF c /= <<>> THEN c ELSE SerialLabeledFrom(up_lines, j + 1))

HasAlphaAndDigit(t) ==
    /\ \E i \in DOMAIN t : IsAlpha(t[i])
    /\ \E i \in DOMAIN t : IsDigit(t[i])

\* the corrected tokens of a hint line that hold a letter and a digit
FallbackToks(ln) ==
    Bind(FindAll(RE_SERIAL_TOKEN, ln, 0), LAMBDA toks :
        SelectSeq([i \in DOMAIN toks |-> _fix_confusions_for_serial(Strip(toks[i], {"-"}))],
                  HasAlphaAndDigit))

IsHintLine(ln) == \E k \in DOMAIN SERIAL_HINTS : Contains(ln, SERIAL_HINTS[k])

RECURSIVE SerialFallbackFrom(_, _)
SerialFallbackFrom(up_lines, j) ==
    IF j > Len(up_lines) THEN <<>>
    ELSE Bind(IF IsHintLine(up_lines[j]) THEN FallbackToks(up_lines[j]) ELSE <<>>,
              LAMBDA tts : IF tts /= <<>> THEN tts[1]
                           ELSE SerialFallbackFrom(up_lines, j + 1))

UpperLines(lines) == [i \in DOMAIN lines |-> Upper(lines[i])]

_parse_serial(lines) ==
    Bind(UpperLines(lines), LAMBDA up_lines :
    Bind(SerialLabeledFrom(up_lines, 1), LAMBDA labeled :
        IF labeled /= <<>> THEN labeled ELSE SerialFallbackFrom(up_lines, 1)))

----------------------------------------------------------------------------
(* Model resolver *)

_BAD_TOKENS == {T(w) : w \in {
    "WARNING", "CAUTION", "JAPAN", "WASHER", "DRYER", "REFRIGERATOR", "INVERTER",
    "AC", "DC", "VOLT", "HERTZ", "HZ", "W", "KW", "MM", "CM", "KG",
    "PANASONIC", "HITACHI", "TOSHIBA", "SHARP", "SONY", "MITSUBISHI", "HISENSE",
    "HAIER", "SAMSUNG", "AQUA", "SANYO", "DAIKIN", "IRIS", "OHYAMA"}}

\* ^\w+-\w+
RE_WORD_HYPHEN_WORD == Cat(<<Plus(Cls(WORD)), Lit("-"), Plus(Cls(WORD))>>)

_score_model_token(t) ==
      (IF "-" \in SetOf(t) THEN 3 ELSE 0)
    + (IF HasAlphaAndDigit(t) THEN 3 ELSE 0)
    + (IF 3 <= Len(t) /\ Len(t) <= 18 THEN 2 ELSE 0)
    + (IF MatchAt(RE_WORD_HYPHEN_WORD, t, 1).found THEN 2 ELSE 0)

\* [A-Z0-9\-_\/\.]
MODEL_RUN == UPPER \cup DIGIT \cup {"-", "_", "/", "."}

\* (?:型番|型式|形式|形名|MODEL(?:\s*NO\.?)?|MOD\.?|品番|製品型番|形式名)\s*[:：\-]?\s*
\*     ([A-Z0-9][A-Z0-9\-_\/\.]{2,24})
RE_MODEL_LABELED ==
    Cat(<<Alt(<<Lit("{kata}{ban}"), Lit("{kata}{shiki}"), Lit("{kei}{shiki}"),
                Lit("{kei}{mei}"),
                Cat(<<Lit("MODEL"), Opt(Cat(<<Star(Cls(RS)), RE_NO_DOT>>))>>),
                Cat(<<Lit("MOD"), Opt(Lit("."))>>),
                Lit("{hin}{ban}"), Lit("{sei}{hin}{kata}{ban}"),
                Lit("{kei}{shiki}{mei}")>>),
          Star(Cls(RS)), Opt(Cls({":", "{fw:}", "-"})), Star(Cls(RS)),
          Grp(1, Cat(<<Cls(UPPER \cup DIGIT), Rep(Cls(MODEL_RUN), 2, 24)>>))>>)

\* \b[A-Z][A-Z0-9\-_\/\.]{2,24}\b
RE_MODEL_TOKEN == Cat(<<WB, Cls(UPPER), Rep(Cls(MODEL_RUN), 2, 24), WB>>)

\* re.fullmatch(r'\d{3,}', t)
AllDigits3(t) == Len(t) >= 3 /\ \A i \in DOMAIN t : t[i] \in RD


\* CandLess comparing the scores alone (sort(key=score, reverse=True))
CandLess_score_only(a, b) == a[1] < b[1]

\* (score, token) < (score, token) as Python compares tuples
CandLess(a, b) == a[1] < b[1] \/ (a[1] = b[1] /\ StrLess(a[2], b[2]))

\* c put after the leading elements of `sorted` that are not less than it
InsertDesc(sorted, c) ==
    Bind(Cardinality({k \in DOMAIN sorted : \A j \in 1..k : ~CandLess(sorted[j], c)}),
         LAMBDA n : SubSeq(sorted, 1, n) \o <<c>> \o SubSeq(sorted, n + 1, Len(sorted)))

\* list.sort(reverse=True) of the first n candidates: descending, equal
\* elements in their original order
RECURSIVE SortDescFrom(_, _)
SortDescFrom(cands, n) ==
    IF n = 0 THEN <<>>
    ELSE Bind(SortDescFrom(cands, n - 1), LAMBDA sorted : InsertDesc(sorted, cands[n]))

SortDesc(cands) == SortDescFrom(cands, Len(cands))

\* (score, t_fixed) of a token that passed the three exclusions
Scored(t) ==
    Bind(_fix_confusions_for_model(t), LAMBDA t_fixed :
        <<_score_model_token(t_fixed), t_fixed>>)

\* the candidates of one upper-cased line, in scan order
LineCands(ln, serial) ==
    Bind(FindAll(RE_MODEL_TOKEN, ln, 0), LAMBDA toks :
    Bind(SelectSeq(toks, LAMBDA t :
                /\ t \notin _BAD_TOKENS
                /\ ~(serial /= <<>> /\ t = serial)
                /\ ~AllDigits3(t)),
         LAMBDA kept :
            SelectSeq([i \in DOMAIN kept |-> Scored(kept[i])], LAMBDA c : c[1] >= 4)))

ModelCands(lines, serial) ==
    Flatten([i \in DOMAIN lines |-> LineCands(Upper(lines[i]), serial)])

\* phase 1: the labeled token, corrected (empty when no label matches)
ModelLabeled(lines) ==
    Bind(Join(UpperLines(lines), T(" ")), LAMBDA up_all :
    Bind(Search(RE_MODEL_LABELED, up_all), LAMBDA m :
        IF m.found THEN _fix_confusions_for_model(Group(up_all, m, 1)) ELSE <<>>))

\* phase 2: the first candidate after the descending sort
ModelScored(lines, serial) ==
    Bind(ModelCands(lines, serial), LAMBDA cands :
        IF cands /= <<>> THEN SortDesc(cands)[1][2] ELSE <<>>)

\* _parse_model returning the labeled token without the _BAD_TOKENS test
_parse_model_unfiltered(lines, serial) ==
    Bind(ModelLabeled(lines), LAMBDA tok :
        IF tok /= <<>> THEN tok
        ELSE ModelScored(lines, serial))

_parse_model(lines, serial) ==
    Bind(ModelLabeled(lines), LAMBDA tok :
        IF tok /= <<>> /\ tok \notin _BAD_TOKENS THEN tok
        ELSE ModelScored(lines, serial))

----------------------------------------------------------------------------
(* Extraction orchestrator *)

EmptyFields == [maker |-> <<>>, model |-> <<>>, serial |-> <<>>, year |-> <<>>]

\* The outcome of one call: exc = FALSE and the returned mapping, or exc = TRUE
\* when the call raised (then nothing is returned).
extract_fields_from_text(txt, this_year) ==
    IF txt = <<>> THEN [exc |-> FALSE, fields |-> EmptyFields]
    ELSE Bind(_split_lines(txt), LAMBDA lines :
         Bind(Upper(_normalize(txt)), LAMBDA up_text :
         Bind(_parse_maker(up_text), LAMBDA maker :
         Bind(_parse_serial(lines), LAMBDA serial :
         Bind(_parse_model(lines, serial), LAMBDA model :
         Bind(_parse_year(txt, this_year), LAMBDA year :
            IF year.exc THEN [exc |-> TRUE, fields |-> <<>>]
            ELSE [exc |-> FALSE,
                  fields |-> [maker |-> maker, model |-> model,
                              serial |-> serial, year |-> year.val]]))))))

----------------------------------------------------------------------------
(* The program: runs of the script on the aggregated OCR text *)

MaxLines == 2
MaxTicks == 1
\* date.today().year when the session starts
FirstYear == 2025

NL == T("\n")

\* every text of 1 .. MaxLines lines drawn from `lib`
TextsOver(lib) ==
    UNION {{Join(ls, NL) : ls \in [1..n -> lib]} : n \in 1..MaxLines}

\* every text made of distinct lines of `lib`, in any order
RECURSIVE Arrangements(_)
Arrangements(lib) ==
    {<<>>} \cup UNION {{<<l>> \o a : a \in Arrangements(lib \ {l})} : l \in lib}

NoCall == [at |-> 0, exc |-> FALSE, fields |-> EmptyFields]

InitWith(texts, years) ==
    /\ text \in texts
    /\ today \in years
    /\ pc = "idle"
    /\ out = NoCall
    /\ prev = NoCall

\* suggest = extract_fields_from_text(aggregated_text)
Invoke ==
    Bind(extract_fields_from_text(text, today), LAMBDA r :
        [at |-> today, exc |-> r.exc, fields |-> r.fields])

\* the first run of the script on the text
Call ==
    /\ pc = "idle"
    /\ out' = Invoke
    /\ pc' = "done"
    /\ UNCHANGED <<text, today, prev>>

\* a rerun of the script on the same text
Recall ==
    /\ pc \in {"done", "redone"}
    /\ prev' = out
    /\ out' = Invoke
    /\ pc' = "redone"
    /\ UNCHANGED <<text, today>>

\* the calendar year changes between two runs
Tick ==
    /\ today < FirstYear + MaxTicks
    /\ today' = today + 1
    /\ UNCHANGED <<text, pc, out, prev>>

Next == Call \/ Recall \/ Tick

\* Runs of the script over a session in which the year may change.
CLOCK_LINES == {T("2027"), T("{rei}{wa}3{nen}"), T("{sei}{zou}{nen}:2015{nen}"),
                T("S/N:1234567890AB")}

Init == InitWith(TextsOver(CLOCK_LINES), {FirstYear})

Spec == Init /\ [][Next]_vars

\* One run on texts that exercise the year parser.
YEAR_LINES == {T("{sei}{zou}{nen}:2015{nen}"), T("{nen}{shiki}{fw:} 2008"),
               T("{rei}{wa}3{nen}"), T("{hei}{naru}{gan}{nen}"), T("R5"),
               T("{rei}{wa}{gan}1{nen}"), T("2027"), T("1998/07")}

InitYear == InitWith(TextsOver(YEAR_LINES), FirstYear..(FirstYear + MaxTicks))

SpecYear == InitYear /\ [][Call]_vars

\* One run on the lines of the documented example, in every order.
EXAMPLE_LINES == {T("Panasonic"), T("{kata}{ban}: NA-VX3800"),
                  T("S/N:1234567890AB"), T("{sei}{zou}{nen}:2019{nen}")}

InitExample ==
    InitWith({Join(a, NL) : a \in Arrangements(EXAMPLE_LINES)},
             FirstYear..(FirstYear + MaxTicks))

SpecExample == InitExample /\ [][Call]_vars

\* One run on texts that exercise the model-number parser.
MODEL_LINES == {T("MODEL NO. XYC123456"), T("SN AO12345"), T("AB-12"),
                T("CD-34 X1Y"), T("MODEL INVERTER"), T("{kata}{ban}: NA-VX3800"),
                T("INVERTER 50Hz"), T("S/N: QQ-1234567"), T("NOTE QX12345")}

InitModel == InitWith(TextsOver(MODEL_LINES), {FirstYear})

SpecModel == InitModel /\ [][Call]_vars

\* One run on texts that exercise the serial-number parser.
SERIAL_LINES == {T("S/N:1234567890AB"), T("{kan}{ri}{ban}{gou}:K-123456-"),
                 T("SERIAL NO. - XY-0012-A"), T("NOTE ABC123-{sei} QQ1234567"),
                 T("SNO12345678"), T("Ser No 99887766"), T("no. ab12cd"),
                 T("MODEL AB-12"), T("S/N: ----")}

InitSerial == InitWith(TextsOver(SERIAL_LINES), {FirstYear})

SpecSerial == InitSerial /\ [][Call]_vars

\* One run on texts that exercise the manufacturer resolver.
MAKER_LINES == {T("ALGEBRA"), T("INTERNATIONAL"), T("AQUARIUM"), T("LG"),
                T("{PA}{NA}{SO}{NI}{tsu}{KU}"), T("Hitachi"), T("made in japan"),
                T("{nichi}{ritsu}LG"), T("Panasonic Corp.")}

InitMaker == InitWith(TextsOver(MAKER_LINES), {FirstYear})

SpecMaker == InitMaker /\ [][Call]_vars

----------------------------------------------------------------------------
(* Properties *)

FieldNames == {"maker", "model", "serial", "year"}

IsString(v) == \A i \in 1..Len(v) : v[i] \in STRING

\* the first run has returned a mapping
Returns == pc = "done" /\ ~out.exc

\* C1: every call returns, without raising, a mapping with exactly the keys
\* maker, model, serial and year, each of them a string.
C1_ReturnsFourStrings ==
    pc = "done" =>
        /\ ~out.exc
        /\ DOMAIN out.fields = FieldNames
        /\ \A f \in FieldNames : IsString(out.fields[f])

\* the documented four-line example
EXAMPLE_TEXT ==
    T("Panasonic\n{kata}{ban}: NA-VX3800\nS/N:1234567890AB\n{sei}{zou}{nen}:2019{nen}")

\* C2 as stated: the example yields Panasonic, NA-VX3800, 1234567890AB and
\* 2019, the serial keeping its letters A and B.
C2_ExampleKeepsB ==
    pc = "done" /\ text = EXAMPLE_TEXT =>
        /\ ~out.exc
        /\ out.fields = [maker |-> T("Panasonic"), model |-> T("NA-VX3800"),
                         serial |-> T("1234567890AB"), year |-> T("2019")]

\* C2: the example yields Panasonic, NA-VX3800, 1234567890A8 and 2019: the
\* serial is digit-dominant, so the serial corrector turns its B into 8.
C2_ExampleCorrectsB ==
    pc = "done" /\ text = EXAMPLE_TEXT =>
        /\ ~out.exc
        /\ out.fields = [maker |-> T("Panasonic"), model |-> T("NA-VX3800"),
                         serial |-> T("1234567890A8"), year |-> T("2019")]

C2_ExampleRun == Returns /\ text = EXAMPLE_TEXT /\ out.fields.serial /= <<>>

\* C3 as stated: the era texts reiwa 3, heisei gan and R5 yield 2021, 1988
\* and 2023.
C3_Heisei1988 ==
    pc = "done" =>
        /\ text = T("{rei}{wa}3{nen}") => ~out.exc /\ out.fields.year = T("2021")
        /\ text = T("{hei}{naru}{gan}{nen}") => ~out.exc /\ out.fields.year = T("1988")
        /\ text = T("R5") => ~out.exc /\ out.fields.year = T("2023")

\* C3: the era texts reiwa 3, heisei gan and R5 yield 2021, 1989 and 2023
\* (the base year plus the era year, gan counting as 1).
C3_Heisei1989 ==
    pc = "done" =>
        /\ text = T("{rei}{wa}3{nen}") => ~out.exc /\ out.fields.year = T("2021")
        /\ text = T("{hei}{naru}{gan}{nen}") => ~out.exc /\ out.fields.year = T("1989")
        /\ text = T("R5") => ~out.exc /\ out.fields.year = T("2023")

C3_HeiseiGanRun == Returns /\ text = T("{hei}{naru}{gan}{nen}") /\ out.fields.year /= <<>>

\* a call's outcome apart from the moment it was made
SameOutcome(a, b) == a.exc = b.exc /\ (~a.exc => a.fields = b.fields)

\* C4 as stated: two runs on the same text give equal results, whatever the
\* dates of the two runs.
C4_SameTextSameResult == pc = "redone" => SameOutcome(out, prev)

\* one of the patterns tried before the bare 4-digit year matches
YearBeforeBare(norm) == YearLabeled(norm).hit \/ YearEra(norm).hit \/ YearAbbr(norm).hit

\* C4: two runs on the same text give equal results when they are made in
\* the same calendar year, or when a labeled year, an era name or an era
\* letter matches; maker, model and serial are equal in any case, and only
\* the year found by the bare 4-digit step may differ.
C4_SameTextSameYearSameResult ==
    pc = "redone" =>
        /\ out.exc = prev.exc
        /\ ~out.exc => /\ out.fields.maker = prev.fields.maker
                       /\ out.fields.model = prev.fields.model
                       /\ out.fields.serial = prev.fields.serial
        /\ out.at = prev.at => SameOutcome(out, prev)
        /\ YearBeforeBare(_normalize(text)) => SameOutcome(out, prev)

C4_YearChangedResult ==
    /\ pc = "redone"
    /\ out.at > prev.at
    /\ ~out.exc /\ ~prev.exc
    /\ out.fields.year /= prev.fields.year

\* C5: whenever the serial is not empty, the model differs from it.
C5_ModelIsNotSerial ==
    Returns /\ out.fields.serial /= <<>> => out.fields.model /= out.fields.serial

\* C6: neither the model nor the serial is ever a bad token.
C6_NoBadToken ==
    Returns => out.fields.model \notin _BAD_TOKENS /\ out.fields.serial \notin _BAD_TOKENS

\* a label is followed by a bad token, which phase 1 rejects
C6_LabeledBadToken == Returns /\ ModelLabeled(_split_lines(text)) \in _BAD_TOKENS

\* the labels of a labeled year
YEAR_LABELS == {T("{sei}{zou}{nen}{gatsu}"), T("{sei}{zou}{nen}"), T("{nen}{shiki}")}

IsBlank(c) == c \in {" ", "\t", "\n"}

\* the labels that the text holds at position i
LabelsAt(norm, i) ==
    {lab \in YEAR_LABELS :
        i + Len(lab) - 1 <= Len(norm) /\ SubSeq(norm, i, i + Len(lab) - 1) = lab}

\* the positions q at which 4 digits follow a label that starts at i, with
\* optional blanks and an optional colon in between
LabeledDigitsAt(norm, i) ==
    LET labs == LabelsAt(norm, i)
    IN IF labs = {} THEN {}
       ELSE {q \in (i + 1)..(Len(norm) - 3) :
                /\ \A k \in 0..3 : norm[q + k] \in DIGIT
                /\ \E lab \in labs :
                    /\ i + Len(lab) <= q
                    /\ \E c \in (i + Len(lab))..q :
                        /\ \A k \in (i + Len(lab))..(c - 1) : IsBlank(norm[k])
                        /\ \/ c = q
                           \/ norm[c] = ":" /\ \A k \in (c + 1)..(q - 1) : IsBlank(norm[k])}

\* the starts of the labeled years of the text
LabeledYearStarts(norm) == {i \in 1..Len(norm) : LabeledDigitsAt(norm, i) /= {}}

\* the 4 digits of the first of the labeled years that start at `starts`
FirstLabeledYear(norm, starts) ==
    LET i == CHOOSE j \in starts : \A k \in starts : j <= k
        q == CHOOSE r \in LabeledDigitsAt(norm, i) : TRUE
    IN SubSeq(norm, q, q + 3)

\* the outcomes of the five patterns, in the order they are tried
YearSteps(norm, this_year) ==
    <<YearLabeled(norm), YearEra(norm), YearAbbr(norm), YearBare(norm, this_year),
      YearDate(norm)>>

\* the outcome of _parse_year carried by a call's record
YearOutcome(o) == IF o.exc THEN Raised ELSE Returned(o.fields.year)

\* C7: the year is the outcome of the first of the five patterns, in the
\* order labeled, era name, era letter, bare 4-digit, date, that matches; a
\* text with a labeled year yields its 4 digits, whatever else it holds.
C7_FirstPatternWins ==
    pc = "done" =>
        Bind(_normalize(text), LAMBDA norm :
        Bind(YearSteps(norm, out.at), LAMBDA steps :
        Bind(LabeledYearStarts(norm), LAMBDA starts :
            /\ \A k \in 1..5 :
                  steps[k].hit /\ (\A j \in 1..(k - 1) : ~steps[j].hit)
                      => YearOutcome(out) = steps[k].res
            /\ (\A k \in 1..5 : ~steps[k].hit) => YearOutcome(out) = Returned(<<>>)
            /\ starts /= {}
                  => ~out.exc /\ out.fields.year = FirstLabeledYear(norm, starts))))

\* a labeled year that follows an era notation matching the second pattern
C7_LabelAfterEra ==
    /\ Returns
    /\ Bind(_normalize(text), LAMBDA norm :
       Bind(LabeledYearStarts(norm), LAMBDA starts :
          /\ YearEra(norm).hit
          /\ starts /= {} /\ 1 \notin starts
          /\ out.fields.year = FirstLabeledYear(norm, starts)))

\* the candidates of phase 2 when the run reached it (empty otherwise)
Phase2Cands ==
    Bind(_split_lines(text), LAMBDA lines :
    Bind(ModelLabeled(lines), LAMBDA tok :
        IF tok /= <<>> /\ tok \notin _BAD_TOKENS THEN <<>>
        ELSE ModelCands(lines, out.fields.serial)))

\* the first candidate in scan order among those with the highest score
FirstBest(cands) ==
    CHOOSE k \in DOMAIN cands :
        /\ \A j \in DOMAIN cands : cands[j][1] <= cands[k][1]
        /\ \A j \in 1..(k - 1) : cands[j][1] < cands[k][1]

\* C8 as stated: phase 2 returns the highest-scoring candidate, and among
\* several with the highest score the first one in scan order.
C8_TieGoesToFirst ==
    Returns =>
        Bind(Phase2Cands, LAMBDA cands :
            cands /= <<>> => out.fields.model = cands[FirstBest(cands)][2])

\* C8: phase 2 returns the highest-scoring candidate, and among several with
\* the highest score the one whose token is greatest in code-point order,
\* wherever it stands in scan order.
C8_TieGoesToGreatest ==
    Returns =>
        Bind(Phase2Cands, LAMBDA cands :
            cands /= <<>> =>
                \E k \in DOMAIN cands :
                    /\ out.fields.model = cands[k][2]
                    /\ cands[k][1] >= 4
                    /\ \A j \in DOMAIN cands :
                        \/ cands[j][1] < cands[k][1]
                        \/ cands[j][1] = cands[k][1] /\ ~StrLess(cands[k][2], cands[j][2]))

\* two candidates share the highest score and the later one is returned
C8_LaterTieReturned ==
    /\ Returns
    /\ Bind(Phase2Cands, LAMBDA cands :
          /\ cands /= <<>>
          /\ out.fields.model /= cands[FirstBest(cands)][2]
          /\ \E k \in DOMAIN cands :
                /\ cands[k][1] = cands[FirstBest(cands)][1]
                /\ cands[k][2] = out.fields.model)

\* an alias written with Latin capitals (and blanks) only
IsLatinAlias(a) == \A i \in DOMAIN a : a[i] \in UPPER \cup {" "}

IsLatinAt(s, i) == i \in DOMAIN s /\ s[i] \in UPPER \cup LOWER \cup DIGIT

\* the positions at which a occurs in s
Occurrences(s, a) ==
    {i \in 1..(Len(s) - Len(a) + 1) : SubSeq(s, i, i + Len(a) - 1) = a}

\* a occurs in s: anywhere when Japanese, as a whole word when Latin
WordMatch(s, a) ==
    IF IsLatinAlias(a)
    THEN \E i \in Occurrences(s, a) : ~IsLatinAt(s, i - 1) /\ ~IsLatinAt(s, i + Len(a))
    ELSE Occurrences(s, a) /= {}

\* a occurs in s, anywhere
PlainMatch(s, a) == Occurrences(s, a) /= {}

\* the canonical name of the first table entry one of whose aliases matches,
\* Latin aliases as whole words only when `words` is set
FirstMaker(s, words) ==
    LET rows == {j \in DOMAIN _MAKER_TABLE :
                    \E n \in DOMAIN _MAKER_TABLE[j].aliases :
                        IF words THEN WordMatch(s, Upper(_MAKER_TABLE[j].aliases[n]))
                        ELSE PlainMatch(s, Upper(_MAKER_TABLE[j].aliases[n]))}
    IN IF rows = {} THEN <<>>
       ELSE _MAKER_TABLE[CHOOSE j \in rows : \A k \in rows : j <= k].canon

\* C9 as stated: the maker is that of the first table entry with an alias
\* matching as a whole word if Latin, as a substring if Japanese; a Latin
\* alias found only inside a longer word gives the empty string.
C9_LatinAtWordBoundary ==
    Returns => out.fields.maker = FirstMaker(Upper(_normalize(text)), TRUE)

\* C9: the maker is that of the first table entry with an alias occurring
\* as a plain substring of the upper-cased text, Latin and Japanese alike; a
\* Latin alias found inside a longer word gives its canonical name.
C9_PlainSubstring ==
    Returns => out.fields.maker = FirstMaker(Upper(_normalize(text)), FALSE)

\* a maker is returned for a Latin alias that occurs only inside longer words
C9_InteriorAliasMatched ==
    /\ Returns
    /\ out.fields.maker /= <<>>
    /\ FirstMaker(Upper(_normalize(text)), TRUE) = <<>>

\* the lines at which the labeled phase accepts a candidate
LabeledLines(up_lines) == {j \in DOMAIN up_lines : LineSerial(up_lines[j]) /= <<>>}

\* C10: a non-empty serial consists of A-Z, 0-9 and hyphens, holds a digit,
\* and neither begins nor ends with a hyphen; it is the candidate of the
\* first line the labeled phase accepts, and a fallback value only when the
\* labeled phase accepts no line.
C10_SerialShape ==
    Returns =>
        Bind(out.fields.serial, LAMBDA s :
        Bind(UpperLines(_split_lines(text)), LAMBDA up_lines :
        Bind(LabeledLines(up_lines), LAMBDA acc :
            /\ s /= <<>> =>
                /\ \A i \in DOMAIN s : s[i] \in UPPER \cup DIGIT \cup {"-"}
                /\ \E i \in DOMAIN s : s[i] \in DIGIT
                /\ s[1] /= "-" /\ s[Len(s)] /= "-"
            /\ acc /= {} =>
                s = LineSerial(up_lines[CHOOSE j \in acc : \A k \in acc : j <= k])
            /\ acc = {} /\ s /= <<>> =>
                \E j \in DOMAIN up_lines :
                    /\ IsHintLine(up_lines[j])
                    /\ \E n \in DOMAIN FallbackToks(up_lines[j]) :
                          FallbackToks(up_lines[j])[n] = s)))

\* a labeled candidate whose trailing hyphen was stripped is returned
C10_StrippedLabeledSerial ==
    /\ Returns
    /\ out.fields.serial /= <<>>
    /\ \E j \in DOMAIN _split_lines(text) :
          /\ LineSerial(Upper(_split_lines(text)[j])) = out.fields.serial
          /\ Contains(Upper(_split_lines(text)[j]), out.fields.serial \o <<"-">>)

\* a serial found by the hint-line fallback is returned
C10_FallbackSerial ==
    /\ Returns
    /\ out.fields.serial /= <<>>
    /\ LabeledLines(UpperLines(_split_lines(text))) = {}

====
